---- MODULE Spec2Model ----
(***************************************************************************)
(* Co-occurrence network builder (src/analyze.py).                         *)
(*                                                                         *)
(* The program lists the CSV files of a directory and calls                *)
(* analyze_and_create_network on each: load with an encoding fallback,     *)
(* pick the text column, run the analyzer sentence by sentence, count the  *)
(* word pairs of each sentence, build the thresholded graph, derive the    *)
(* drawing attributes and save the figure.                                 *)
(*                                                                         *)
(* The locals of analyze_and_create_network are module variables here.     *)
(* A call leaves them as the previous call left them until the line that   *)
(* assigns them runs (30, 66, 76, 87, 102, 105); the code reads none of    *)
(* them before that line.                                                  *)
(***************************************************************************)
EXTENDS Integers, Sequences, FiniteSets, TLC

\* ---------------------------------------------------------------- bounds
MaxFiles == 2        \* files in the directory listing
MaxSentences == 2    \* sentences retained per document
MaxTokens == 3       \* tokens the analyzer yields per sentence
MaxThreshold == 2    \* configured values of MIN_COOCCURRENCE

\* ------------------------------------------------------- program constants
NODE_SIZE_SCALE == 100      \* d * 100
EDGE_WIDTH_SCALE_X10 == 5   \* d['weight'] * 0.5, kept in tenths

TARGET_POS == {"NOUN", "PROPN", "VERB", "ADJ"}
ENCODINGS == <<"utf-8", "cp932", "shift_jis">>

\* ------------------------------------------------------------ input alphabet
Words == {"a", "b", "c"}
\* Python orders str by code point
Ord == [w \in Words |-> CASE w = "a" -> 97 [] w = "b" -> 98 [] w = "c" -> 99]
PosTags == {"NOUN", "ADP"}
Tokens == [lemma : Words, pos : PosTags]
AnalyzedSentences == UNION {[1..n -> Tokens] : n \in 0..MaxTokens}

VARIABLES
    MIN_COOCCURRENCE,    \* the configured threshold
    csv_files,           \* the directory listing
    idx,                 \* position of the for loop of __main__ in csv_files
    pc,                  \* position in the program
    enc,                 \* position of the encoding loop in ENCODINGS
    df,                  \* "None" or "DataFrame"
    words_per_sentence,
    co_occurrence,
    G,
    node_size,
    edge_width,
    images,              \* documents whose PNG has been written
    attempts,            \* read_csv calls of the current document: <<encoding, result>>,
                         \* result "ok", "caught" (UnicodeDecodeError, ParserError)
                         \* or "uncaught" (any other exception)
    report               \* per document: stages passed and the last message printed

vars == <<MIN_COOCCURRENCE, csv_files, idx, pc, enc, df, words_per_sentence,
          co_occurrence, G, node_size, edge_width, images, attempts, report>>

Range(s) == {s[i] : i \in DOMAIN s}

\* ------------------------------------------------------------ Counter, Graph
EmptyCounter == [k \in {} |-> 0]
EmptyGraph == [nodes |-> {}, adj |-> [k \in {} |-> 0]]

\* the table the previous call left: a Counter created once, outside the function
StaleCounter == co_occurrence

\* co_occurrence = Counter()
NewCounter == EmptyCounter

\* co_occurrence[pair] += 1 (a missing key reads as 0)
Incr(c, pair) ==
    [k \in DOMAIN c \cup {pair} |->
        IF k = pair THEN (IF pair \in DOMAIN c THEN c[pair] ELSE 0) + 1 ELSE c[k]]

\* set(words)
SetOf(words) == Range(words)

\* sorted(S), descending: the order a reverse=True would give
RECURSIVE SortedReverse(_)
SortedReverse(S) ==
    IF S = {} THEN <<>>
    ELSE LET m == CHOOSE x \in S : \A y \in S : Ord[x] >= Ord[y]
         IN  <<m>> \o SortedReverse(S \ {m})

\* sorted(S)
RECURSIVE Sorted(_)
Sorted(S) ==
    IF S = {} THEN <<>>
    ELSE LET m == CHOOSE x \in S : \A y \in S : Ord[x] <= Ord[y]
         IN  <<m>> \o Sorted(S \ {m})

\* neighbouring elements only: zip(seq, seq[1:])
AdjacentPairs(seq) ==
    [i \in 1..(IF Len(seq) < 2 THEN 0 ELSE Len(seq) - 1) |-> <<seq[i], seq[i + 1]>>]

\* itertools.combinations(seq, 2), in its order
RECURSIVE Combinations2(_)
Combinations2(seq) ==
    IF Len(seq) < 2 THEN <<>>
    ELSE [i \in 1..(Len(seq) - 1) |-> <<seq[1], seq[i + 1]>>] \o Combinations2(Tail(seq))

RECURSIVE IncrAll(_, _)
IncrAll(c, pairs) ==
    IF pairs = <<>> THEN c ELSE IncrAll(Incr(c, Head(pairs)), Tail(pairs))

\* one iteration of the loop of line 77
CountSentence(c, words) == IncrAll(c, Combinations2(Sorted(SetOf(words))))

\* the loop of lines 77-80
RECURSIVE CountPairs(_, _)
CountPairs(c, sentences) ==
    IF sentences = <<>> THEN c
    ELSE CountPairs(CountSentence(c, Head(sentences)), Tail(sentences))

\* G.add_edge(u, v, weight=w)
AddEdge(g, u, v, w) ==
    [nodes |-> g.nodes \cup {u, v},
     adj   |-> [k \in DOMAIN g.adj \cup {<<u, v>>, <<v, u>>} |->
                   IF k \in {<<u, v>>, <<v, u>>} THEN w ELSE g.adj[k]]]

QualifiesStrict(weight, threshold) == weight > threshold
QualifiesInverted(weight, threshold) == weight <= threshold

\* if weight >= MIN_COOCCURRENCE
Qualifies(weight, threshold) == weight >= threshold

\* the loop of lines 90-92 over the items still to visit
RECURSIVE AddEdges(_, _, _, _)
AddEdges(g, keys, c, threshold) ==
    IF keys = {} THEN g
    ELSE LET pair == CHOOSE k \in keys : TRUE
             next == IF Qualifies(c[pair], threshold)
                     THEN AddEdge(g, pair[1], pair[2], c[pair])
                     ELSE g
         IN  AddEdges(next, keys \ {pair}, c, threshold)

\* G = nx.Graph() and the loop of lines 90-92
GraphOf(c, threshold) == AddEdges(EmptyGraph, DOMAIN c, c, threshold)

RECURSIVE SumOver(_, _)
SumOver(f, keys) ==
    IF keys = {} THEN 0
    ELSE LET k == CHOOSE x \in keys : TRUE IN f[k] + SumOver(f, keys \ {k})

\* G.degree(): the number of neighbours
PlainDegree(g, n) == Cardinality({k \in DOMAIN g.adj : k[1] = n})

\* G.degree(weight='weight')
Degree(g, n) ==
    SumOver(g.adj, {k \in DOMAIN g.adj : k[1] = n /\ k[2] # n})
    + (IF <<n, n>> \in DOMAIN g.adj THEN 2 * g.adj[<<n, n>>] ELSE 0)

\* G.edges(data=True): each undirected edge once
Edges(g) == {{k[1], k[2]} : k \in DOMAIN g.adj}
WeightOf(g, e) == g.adj[CHOOSE k \in DOMAIN g.adj : {k[1], k[2]} = e]

\* [token.lemma_ for token in sent if token.pos_ in TARGET_POS]
Lemmas(sent) ==
    LET kept == SelectSeq(sent, LAMBDA t : t.pos \in TARGET_POS)
    IN  [i \in 1..Len(kept) |-> kept[i].lemma]

KeepsNonEmpty(words) == Len(words) > 0

\* if len(words) > 1
Keeps(words) == Len(words) > 1

\* ------------------------------------------------------------------ report
NewRecord == [stages |-> <<>>, msg |-> "start"]
Current == report[Len(report)]
Stage(s) == [report EXCEPT ![Len(report)].stages = Append(@, s)]
Final(s, m) ==
    [report EXCEPT ![Len(report)] = [stages |-> Append(@.stages, s), msg |-> m]]

\* an early return of analyze_and_create_network after printing m
Skip(m) == /\ report' = Final("SKIPPED", m)
           /\ pc' = "next"

\* an exception nothing catches: it leaves the function and the for loop
Raise == /\ report' = Final("ABORTED", "traceback")
         /\ pc' = "crashed"

Init ==
    /\ MIN_COOCCURRENCE \in 1..MaxThreshold
    /\ csv_files \in {[i \in 1..n |-> i] : n \in 0..MaxFiles}
    /\ idx = 0
    /\ pc = "main"
    /\ enc = 1
    /\ df = "None"
    /\ words_per_sentence = <<>>
    /\ co_occurrence = EmptyCounter
    /\ G = EmptyGraph
    /\ node_size = [n \in {} |-> 0]
    /\ edge_width = [e \in {} |-> 0]
    /\ images = {}
    /\ attempts = <<>>
    /\ report = <<>>

Locals == <<enc, df, words_per_sentence, co_occurrence, G, node_size, edge_width>>
Config == <<MIN_COOCCURRENCE, csv_files>>

\* __main__ with an empty listing
MainNoFiles ==
    /\ pc = "main"
    /\ csv_files = <<>>
    /\ pc' = "done"
    /\ UNCHANGED <<Config, idx, Locals, images, attempts, report>>

\* __main__: the first iteration of the for loop
MainStart ==
    /\ pc = "main"
    /\ csv_files # <<>>
    /\ idx' = 1
    /\ report' = <<NewRecord>>
    /\ attempts' = <<>>
    /\ pc' = "call"
    /\ UNCHANGED <<Config, Locals, images>>

\* the for loop after a call returned
NextFile ==
    /\ pc = "next"
    /\ IF idx < Len(csv_files)
       THEN /\ idx' = idx + 1
            /\ report' = Append(report, NewRecord)
            /\ attempts' = <<>>
            /\ pc' = "call"
       ELSE /\ pc' = "done"
            /\ UNCHANGED <<idx, report, attempts>>
    /\ UNCHANGED <<Config, Locals, images>>

\* entry of analyze_and_create_network
Enter ==
    /\ pc = "call"
    /\ df' = "None"
    /\ enc' = 1
    /\ pc' = "load"
    /\ UNCHANGED <<Config, idx, words_per_sentence, co_occurrence, G, node_size,
                   edge_width, images, attempts, report>>

\* pd.read_csv succeeds: break
ReadOk ==
    /\ pc = "load"
    /\ enc <= Len(ENCODINGS)
    /\ attempts' = Append(attempts, <<ENCODINGS[enc], "ok">>)
    /\ df' = "DataFrame"
    /\ report' = Stage("LOADED")
    /\ pc' = "checkdf"
    /\ UNCHANGED <<Config, idx, enc, words_per_sentence, co_occurrence, G, node_size,
                   edge_width, images>>

\* pd.read_csv raises one of the two caught exceptions: continue
ReadCaught ==
    /\ pc = "load"
    /\ enc <= Len(ENCODINGS)
    /\ attempts' = Append(attempts, <<ENCODINGS[enc], "caught">>)
    /\ enc' = enc + 1
    /\ pc' = IF enc = Len(ENCODINGS) THEN "checkdf" ELSE "load"
    /\ UNCHANGED <<Config, idx, df, words_per_sentence, co_occurrence, G, node_size,
                   edge_width, images, report>>

\* pd.read_csv raises anything else (an empty file: EmptyDataError)
ReadRaises ==
    /\ pc = "load"
    /\ enc <= Len(ENCODINGS)
    /\ attempts' = Append(attempts, <<ENCODINGS[enc], "uncaught">>)
    /\ Raise
    /\ UNCHANGED <<Config, idx, Locals, images>>

\* if df is None
CheckLoaded ==
    /\ pc = "checkdf"
    /\ IF df = "None" THEN Skip("load_error")
       ELSE /\ pc' = "select"
            /\ UNCHANGED report
    /\ UNCHANGED <<Config, idx, Locals, images, attempts>>

\* the try block of lines 51-62
SelectColumn ==
    /\ pc = "select"
    /\ \/ Skip("no_column")
       \/ Skip("no_text")
       \/ Skip("data_error")
       \/ /\ pc' = "nlp"
          /\ UNCHANGED report
    /\ UNCHANGED <<Config, idx, Locals, images, attempts>>

\* nlp = spacy.load(...); words_per_sentence = []
LoadAnalyzer ==
    /\ pc = "nlp"
    /\ words_per_sentence' = <<>>
    /\ pc' = "tokenize"
    /\ UNCHANGED <<Config, idx, enc, df, co_occurrence, G, node_size, edge_width,
                   images, attempts, report>>

\* spacy.load or nlp(str(text)) raises
AnalyzerRaises ==
    /\ pc \in {"nlp", "tokenize"}
    /\ Raise
    /\ UNCHANGED <<Config, idx, Locals, images, attempts>>

\* one sentence of doc.sents
TokenizeSentence ==
    /\ pc = "tokenize"
    /\ Len(words_per_sentence) < MaxSentences
    /\ \E sent \in AnalyzedSentences :
          LET words == Lemmas(sent)
          IN  words_per_sentence' =
                  IF Keeps(words) THEN Append(words_per_sentence, words)
                  ELSE words_per_sentence
    /\ UNCHANGED <<Config, idx, pc, enc, df, co_occurrence, G, node_size, edge_width,
                   images, attempts, report>>

\* the loops of lines 67-73 end
TokenizeDone ==
    /\ pc = "tokenize"
    /\ report' = Stage("TOKENIZED")
    /\ pc' = "count"
    /\ UNCHANGED <<Config, idx, Locals, images, attempts>>

\* lines 76-84
Count ==
    /\ pc = "count"
    /\ co_occurrence' = CountPairs(NewCounter, words_per_sentence)
    /\ IF DOMAIN co_occurrence' = {}
       THEN /\ report' = [Stage("COUNTED") EXCEPT
                             ![Len(report)] = [stages |-> Append(@.stages, "SKIPPED"),
                                               msg |-> "no_pairs"]]
            /\ pc' = "next"
       ELSE /\ report' = Stage("COUNTED")
            /\ pc' = "graph"
    /\ UNCHANGED <<Config, idx, enc, df, words_per_sentence, G, node_size, edge_width,
                   images, attempts>>

\* lines 87-96
BuildGraph ==
    /\ pc = "graph"
    /\ G' = GraphOf(co_occurrence, MIN_COOCCURRENCE)
    /\ IF G'.nodes = {}
       THEN /\ report' = [Stage("GRAPHED") EXCEPT
                             ![Len(report)] = [stages |-> Append(@.stages, "SKIPPED"),
                                               msg |-> "no_graph"]]
            /\ pc' = "next"
       ELSE /\ report' = Stage("GRAPHED")
            /\ pc' = "render"
    /\ UNCHANGED <<Config, idx, enc, df, words_per_sentence, co_occurrence, node_size,
                   edge_width, images, attempts>>

\* lines 99-105
ComputeAttributes ==
    /\ pc = "render"
    /\ node_size' = [n \in G.nodes |-> Degree(G, n) * NODE_SIZE_SCALE]
    /\ edge_width' = [e \in Edges(G) |-> WeightOf(G, e) * EDGE_WIDTH_SCALE_X10]
    /\ pc' = "save"
    /\ UNCHANGED <<Config, idx, enc, df, words_per_sentence, co_occurrence, G, images,
                   attempts, report>>

\* lines 107-121
SaveFigure ==
    /\ pc = "save"
    /\ images' = images \cup {csv_files[idx]}
    /\ report' = Final("RENDERED", "saved")
    /\ pc' = "next"
    /\ UNCHANGED <<Config, idx, Locals, attempts>>

\* layout, drawing or plt.savefig raises
RenderRaises ==
    /\ pc = "save"
    /\ Raise
    /\ UNCHANGED <<Config, idx, Locals, images, attempts>>

Next ==
    \/ MainNoFiles
    \/ MainStart
    \/ NextFile
    \/ Enter
    \/ ReadOk
    \/ ReadCaught
    \/ ReadRaises
    \/ CheckLoaded
    \/ SelectColumn
    \/ LoadAnalyzer
    \/ AnalyzerRaises
    \/ TokenizeSentence
    \/ TokenizeDone
    \/ Count
    \/ BuildGraph
    \/ ComputeAttributes
    \/ SaveFigure
    \/ RenderRaises

Spec == Init /\ [][Next]_vars

\* ------------------------------------------------------------------ claims
Pipeline == <<"LOADED", "TOKENIZED", "COUNTED", "GRAPHED", "RENDERED">>
Last(s) == s[Len(s)]

\* the current document's table has been counted / its graph has been built
TableValid == report # <<>> /\ "COUNTED" \in Range(Current.stages)
GraphValid == report # <<>> /\ "GRAPHED" \in Range(Current.stages)

\* the count the table holds for the unordered pair {a, b}, absent = 0
TableCount(c, a, b) ==
    (IF <<a, b>> \in DOMAIN c THEN c[<<a, b>>] ELSE 0)
    + (IF <<b, a>> \in DOMAIN c THEN c[<<b, a>>] ELSE 0)

\* the number of sentences in which both a and b occur
SentencesWithBoth(sentences, a, b) ==
    Cardinality({i \in DOMAIN sentences :
                    a \in Range(sentences[i]) /\ b \in Range(sentences[i])})

\* C1: the count of every pair of distinct words equals the number of
\* sentences holding both words, repeated sentences counted each and a
\* repeated word in a sentence counted once; a pair of no sentence is absent
\* and every stored count is at least 1.
C1_PairCounts ==
    TableValid =>
        /\ \A a \in Words : \A b \in Words \ {a} :
              LET n == SentencesWithBoth(words_per_sentence, a, b)
              IN  /\ TableCount(co_occurrence, a, b) = n
                  /\ n = 0 => /\ <<a, b>> \notin DOMAIN co_occurrence
                              /\ <<b, a>> \notin DOMAIN co_occurrence
        /\ \A k \in DOMAIN co_occurrence : co_occurrence[k] >= 1

\* two identical sentences [a, b, a]: the pair counts 2, the pairs with c are absent
C1_Witness ==
    /\ TableValid
    /\ words_per_sentence = << <<"a", "b", "a">>, <<"a", "b", "a">> >>
    /\ co_occurrence = [k \in {<<"a", "b">>} |-> 2]

\* C2: the graph has the edge {a, b} exactly when the table's count of the
\* pair reaches the threshold, the edge's weight is the count, and the nodes
\* are exactly the endpoints of the edges.
C2_GraphOfTable ==
    GraphValid =>
        /\ \A a \in Words : \A b \in Words \ {a} :
              /\ {a, b} \in Edges(G)
                    <=> TableCount(co_occurrence, a, b) >= MIN_COOCCURRENCE
              /\ {a, b} \in Edges(G) =>
                    /\ <<a, b>> \in DOMAIN G.adj /\ <<b, a>> \in DOMAIN G.adj
                    /\ G.adj[<<a, b>>] = TableCount(co_occurrence, a, b)
                    /\ G.adj[<<b, a>>] = TableCount(co_occurrence, a, b)
        /\ G.nodes = UNION Edges(G)

\* a graph with an edge, and a word of the table that is no node
C2_Witness ==
    /\ GraphValid
    /\ G.nodes # {}
    /\ \E k \in DOMAIN co_occurrence : k[1] \notin G.nodes \/ k[2] \notin G.nodes

IsSubgraph(g, h) ==
    /\ g.nodes \subseteq h.nodes
    /\ DOMAIN g.adj \subseteq DOMAIN h.adj
    /\ \A k \in DOMAIN g.adj : g.adj[k] = h.adj[k]

\* C5: for every counted table and every threshold T >= 1 the graph at T + 1
\* is a subgraph of the graph at T, with equal weights on the shared edges.
C5_ThresholdMonotone ==
    TableValid =>
        \A t \in 1..MaxThreshold :
            LET lo == GraphOf(co_occurrence, t)
                hi == GraphOf(co_occurrence, t + 1)
            IN  /\ IsSubgraph(hi, lo)
                /\ Cardinality(hi.nodes) <= Cardinality(lo.nodes)
                /\ Cardinality(Edges(hi)) <= Cardinality(Edges(lo))

\* a table whose graph loses an edge and a node, and keeps an edge, from T to T + 1
C5_Witness ==
    /\ TableValid
    /\ \E t \in 1..MaxThreshold :
          LET lo == GraphOf(co_occurrence, t)
              hi == GraphOf(co_occurrence, t + 1)
          IN  /\ hi.nodes # {}
              /\ hi.nodes # lo.nodes
              /\ Edges(hi) # Edges(lo)

\* C6: every key (x, y) of the table has x strictly before y in the sort
\* order, the table never holds both orders of a pair, and the graph has no
\* self-loop.
C6_CanonicalKeys ==
    /\ TableValid =>
          /\ \A k \in DOMAIN co_occurrence : Ord[k[1]] < Ord[k[2]]
          /\ \A a \in Words : \A b \in Words :
                ~(<<a, b>> \in DOMAIN co_occurrence /\ <<b, a>> \in DOMAIN co_occurrence)
    /\ GraphValid => \A n \in Words : <<n, n>> \notin DOMAIN G.adj

\* a sentence [b, a, b], out of order and with a repeated word, counted and graphed
C6_Witness ==
    /\ GraphValid
    /\ <<"b", "a", "b">> \in Range(words_per_sentence)
    /\ <<"a", "b">> \in DOMAIN co_occurrence
    /\ {"a", "b"} \in Edges(G)

\* C7: the table and the graph of a document are those of its own sentences
\* counted from an empty table, whatever documents were processed before it.
C7_NoCarryOver ==
    /\ TableValid => co_occurrence = CountPairs(EmptyCounter, words_per_sentence)
    /\ GraphValid =>
          G = GraphOf(CountPairs(EmptyCounter, words_per_sentence), MIN_COOCCURRENCE)

\* the second document, graphed, after a first document that had its own pairs
C7_Witness ==
    /\ Len(report) = 2
    /\ "GRAPHED" \in Range(report[1].stages)
    /\ GraphValid
    /\ G.nodes # {}

\* the weights of the edges of g at node n, summed edge by edge
RECURSIVE IncidentWeight(_, _, _)
IncidentWeight(g, n, es) ==
    IF es = {} THEN 0
    ELSE LET e == CHOOSE x \in es : TRUE
         IN  (IF n \in e THEN WeightOf(g, e) ELSE 0) + IncidentWeight(g, n, es \ {e})

\* C8: rendering gives every node the size 100 times the sum of the weights
\* of its incident edges and every edge the width 0.5 times its weight, and
\* leaves the graph as it was.
C8_VisualAttributes ==
    [][/\ (pc = "render" /\ pc' = "save") =>
             /\ DOMAIN node_size' = G.nodes
             /\ \A n \in G.nodes :
                   node_size'[n] = IncidentWeight(G, n, Edges(G)) * 100
             /\ DOMAIN edge_width' = Edges(G)
             /\ \A e \in Edges(G) : edge_width'[e] * 2 = WeightOf(G, e) * 10
       /\ pc \in {"render", "save"} => G' = G]_vars

\* attributes computed for a graph with a node of two edges of different weights
C8_Witness ==
    /\ pc = "save"
    /\ \E n \in G.nodes : \E m \in G.nodes : \E o \in G.nodes :
          /\ <<n, m>> \in DOMAIN G.adj /\ <<n, o>> \in DOMAIN G.adj
          /\ G.adj[<<n, m>>] # G.adj[<<n, o>>]
          /\ node_size[n] = (G.adj[<<n, m>>] + G.adj[<<n, o>>]) * 100

\* C9 (as the code has it): every retained sentence has at least two tokens,
\* repetitions counted.
C9_RetainedLength ==
    \A i \in DOMAIN words_per_sentence : Len(words_per_sentence[i]) >= 2

\* a retained sentence of one word twice, counted: it gave no pair
C9_Witness ==
    /\ TableValid
    /\ <<"a", "a">> \in Range(words_per_sentence)
    /\ DOMAIN co_occurrence = {}

\* C9 (as stated): every retained sentence has at least two distinct tokens.
C9_DistinctTokens ==
    \A i \in DOMAIN words_per_sentence :
        Cardinality(SetOf(words_per_sentence[i])) >= 2

RunEnded == pc \in {"done", "crashed"}

\* the document of report[i] is no longer being processed
Finished(i) == i < Len(report) \/ pc \in {"next", "done", "crashed"}

\* C3: a failure in one document never aborts the run: when the run has
\* ended every document of the listing has been processed.
C3_LaterDocumentsProcessed ==
    RunEnded => Len(report) = Len(csv_files)

\* C4: a document passes the stages in the order LOADED, TOKENIZED, COUNTED,
\* GRAPHED, RENDERED and ends in RENDERED or SKIPPED; it ends in SKIPPED with
\* a message and no image when the load fails, there is no text, the table
\* is empty or the graph has no node, and in RENDERED only with a node.
C4_Lifecycle ==
    \A i \in DOMAIN report :
        LET s == report[i].stages
        IN  /\ \A j \in DOMAIN s :
                  \/ j <= Len(Pipeline) /\ s[j] = Pipeline[j]
                  \/ j = Len(s) /\ s[j] = "SKIPPED"
            /\ Finished(i) =>
                  /\ s # <<>>
                  /\ Last(s) \in {"RENDERED", "SKIPPED"}
                  /\ "LOADED" \notin Range(s) => Last(s) = "SKIPPED"
                  /\ Last(s) = "SKIPPED" =>
                        /\ report[i].msg \in {"load_error", "no_column", "no_text",
                                              "data_error", "no_pairs", "no_graph"}
                        /\ csv_files[i] \notin images
                  /\ Last(s) = "RENDERED" <=> csv_files[i] \in images
            /\ (i = Len(report) /\ Finished(i) /\ GraphValid) =>
                  (Last(s) = "RENDERED" <=> G.nodes # {})
            /\ (i = Len(report) /\ Finished(i) /\ TableValid /\ ~GraphValid) =>
                  (DOMAIN co_occurrence = {} /\ Last(s) = "SKIPPED")

\* C10: the encodings are tried in the order utf-8, cp932, shift_jis up to
\* the first that parses; a failed attempt is consumed, never surfaced; when
\* all fail the document is reported as a load error and skipped before
\* tokenization.
C10_EncodingFallback ==
    /\ \A j \in DOMAIN attempts : attempts[j][1] = ENCODINGS[j]
    /\ \A j \in DOMAIN attempts : j < Len(attempts) => attempts[j][2] # "ok"
    /\ \A j \in DOMAIN attempts : attempts[j][2] # "uncaught"
    /\ (report # <<>> /\ Finished(Len(report))
            /\ \A j \in DOMAIN attempts : attempts[j][2] # "ok") =>
          /\ Len(attempts) = Len(ENCODINGS)
          /\ Current.msg = "load_error"
          /\ Current.stages = <<"SKIPPED">>

====
